---- MODULE Spec2Model ----
(***************************************************************************)
(* Model of src/app.py: the batch image-translation pipeline               *)
(* (process_images), the translation client (call_gemini_edit), the        *)
(* response extractor (extract_image_from_response), the codec helpers and *)
(* the usage ledger (sessions / file_logs tables).                         *)
(*                                                                         *)
(* Three specifications share the variables:                               *)
(*   Spec         one invocation of process_images, every per-item outcome *)
(*   SpecConc     two invocations interleaved, wall clock ticking          *)
(*   SpecExtract  extract_image_from_response applied to bounded trees     *)
(***************************************************************************)
EXTENDS Naturals, Integers, Sequences, FiniteSets, TLC

\* ------------------------------------------------------------------------
\* Bounds of the model
\* ------------------------------------------------------------------------
\* longest uploaded file list of one invocation under Spec
MaxFiles == 2
\* longest uploaded file list of one invocation under SpecConc
MaxConcFiles == 1
\* last second the wall clock reaches under SpecConc
MaxClock == 1
\* how many single-child maps / lists may wrap a tree given to the extractor
MaxWrap == 1

\* ------------------------------------------------------------------------
\* Program constants
\* ------------------------------------------------------------------------
\* shape (b) of the extractor: len(node["data"]) > 100
DataMinLen == 100
\* resp.status_code != 200
HttpOk == 200

\* ------------------------------------------------------------------------
\* JSON-like values: maps keep their entries in stored order
\* ------------------------------------------------------------------------
Str(v, n) == [kind |-> "str", val |-> v, len |-> n]
Num == [kind |-> "num"]
Null == [kind |-> "null"]
Map(ent) == [kind |-> "map", ent |-> ent]
List(items) == [kind |-> "list", items |-> items]
\* Python None as returned by walk / dict.get without default
None == [kind |-> "none"]

\* the pair (mime, data) returned for an image node
Tuple(m, d) == [kind |-> "tuple", mime |-> m, data |-> d]

IsStr(x) == x.kind = "str"
IsDict(x) == x.kind = "map"
IsList(x) == x.kind = "list"

\* "key in node"
HasKey(node, key) == \E i \in 1..Len(node.ent) : node.ent[i][1] = key
\* node.get(key, default)
Get(node, key, default) ==
    IF HasKey(node, key)
    THEN node.ent[CHOOSE i \in 1..Len(node.ent) : node.ent[i][1] = key][2]
    ELSE default
\* list(node.values())
Values(node) == [i \in 1..Len(node.ent) |-> node.ent[i][2]]

MimePng == Str("image/png", 9)
MimeJpeg == Str("image/jpeg", 10)
MimeGif == Str("image/gif", 9)
MimeUpperWebp == Str("IMAGE/WEBP", 10)

\* ------------------------------------------------------------------------
\* extract_image_from_response (src/app.py 67-88)
\* ------------------------------------------------------------------------
RECURSIVE walk(_)
RECURSIVE walkAll(_)
\* a walk that takes a payload of exactly 100 characters for shape (b)
walkOffByOne(node) ==
    IF IsDict(node)
    THEN LET inline == Get(node, "inline_data", None)
             data == IF IsDict(inline) THEN Get(inline, "data", None) ELSE None
         IN  IF HasKey(node, "inline_data") /\ IsDict(inline) /\ IsStr(data)
             THEN Tuple(Get(inline, "mime_type", MimePng), data)
             ELSE IF /\ HasKey(node, "data")
                     /\ IsStr(Get(node, "data", None))
                     /\ Get(node, "data", None).len >= DataMinLen
                  THEN Tuple(Get(node, "mime_type", MimePng), Get(node, "data", None))
                  ELSE walkAll(Values(node))
    ELSE IF IsList(node)
         THEN walkAll(node.items)
         ELSE None

walk(node) ==
    IF IsDict(node)
    THEN LET inline == Get(node, "inline_data", None)
             data == IF IsDict(inline) THEN Get(inline, "data", None) ELSE None
         IN  IF HasKey(node, "inline_data") /\ IsDict(inline) /\ IsStr(data)
             THEN Tuple(Get(inline, "mime_type", MimePng), data)
             ELSE IF /\ HasKey(node, "data")
                     /\ IsStr(Get(node, "data", None))
                     /\ Get(node, "data", None).len > DataMinLen
                  THEN Tuple(Get(node, "mime_type", MimePng), Get(node, "data", None))
                  ELSE walkAll(Values(node))
    ELSE IF IsList(node)
         THEN walkAll(node.items)
         ELSE None

\* the two for-loops of walk: the first child whose walk finds something
walkAll(children) ==
    IF children = <<>>
    THEN None
    ELSE LET found == walk(Head(children))
         IN  IF found # None THEN found ELSE walkAll(Tail(children))

extract_image_from_response(payload) == walk(payload)

\* ------------------------------------------------------------------------
\* Trees given to the extractor under SpecExtract
\* ------------------------------------------------------------------------
\* base64 text is modelled as a run of one character: "A" * 104
ShortA == Str("A", 4)
LongB == Str("B", 104)
LongBadA == Str("A", 101)
Exactly100 == Str("A", 100)

Opt(key, vals) == {<<>>} \cup {<< <<key, v>> >> : v \in vals}

InlineVals ==
    { Map(<< <<"data", ShortA>> >>),
      Map(<< <<"mime_type", MimeJpeg>>, <<"data", ShortA>> >>),
      Map(<< <<"data", Num>> >>),
      Map(<< <<"mime_type", Null>>, <<"data", Exactly100>> >>) }

\* maps that may or may not be an image node of shape (a) or (b)
Blocks ==
    { Map(i \o d \o m) :
        i \in Opt("inline_data", InlineVals),
        d \in Opt("data", {LongB, Exactly100}),
        m \in Opt("mime_type", {MimeGif}) }

Leaves == Blocks \cup {Num, LongB}

\* two siblings in a list or a map, or a block with one more child after its own fields
Pairs ==
    {List(<<s, t>>) : s \in Leaves, t \in Leaves}
    \cup {Map(<< <<"x", s>>, <<"y", t>> >>) : s \in Blocks, t \in Blocks}
    \cup {Map(b.ent \o << <<"parts", t>> >>) : b \in Blocks, t \in Blocks}

RECURSIVE Wrapped(_)
Wrapped(d) ==
    IF d = 0
    THEN Leaves \cup Pairs
    ELSE LET inner == Wrapped(d - 1)
         IN  inner \cup {List(<<t>>) : t \in inner}
                   \cup {Map(<< <<"candidates", t>> >>) : t \in inner}

Trees == Wrapped(MaxWrap)

\* ------------------------------------------------------------------------
\* Codec helpers
\* ------------------------------------------------------------------------
\* bytes: n copies of the 6-bit value of one base64 character, repacked
Bytes(v, n) == [of |-> v, n |-> n]
EmptyBytes == Bytes("", 0)

\* base64.b64decode (src/app.py 118): a run of alphabet characters without
\* padding decodes only when its length is a multiple of 4
B64Valid(s) == s.len % 4 = 0
B64Decode(s) == Bytes(s.val, (s.len \div 4) * 3)

\* str.lower() on the mime strings of the model
Lower(v) ==
    CASE v = "IMAGE/WEBP" -> "image/webp"
      [] OTHER -> v

\* ext_from_mime (src/app.py 129-138); mime.lower() raises on a non-string
ExtRaises(mime) == ~IsStr(mime)
ext_from_mime(mime) ==
    LET m == Lower(mime.val)
    IN  CASE m = "image/jpeg" -> ".jpg"
          [] m = "image/jpg" -> ".jpg"
          [] m = "image/png" -> ".png"
          [] m = "image/webp" -> ".webp"
          [] m = "image/gif" -> ".gif"
          [] m = "image/heic" -> ".heic"
          [] OTHER -> ".png"

\* guess_mime_type (src/app.py 52-58) on the suffixes of the model
guess_mime_type(path) ==
    LET mt == CASE path.suffix = ".png" -> "image/png"
                [] path.suffix = ".jpg" -> "image/jpeg"
                [] path.suffix = ".txt" -> "text/plain"
                [] OTHER -> "unknown"
    IN  IF mt = "unknown" THEN "image/jpeg"
        ELSE IF mt \notin {"image/png", "image/jpeg"} THEN "image/jpeg"
        ELSE mt

\* ------------------------------------------------------------------------
\* Inputs and environment outcomes
\* ------------------------------------------------------------------------
Batches == {1, 2}

\* uploaded files: Path(in_path).name is stem + suffix
UploadA == [dir |-> "u1", stem |-> "a", suffix |-> ".png"]
UploadB == [dir |-> "u2", stem |-> "b", suffix |-> ".jpg"]
Uploads == {UploadA, UploadB}
ConcUploads == {UploadA}

Filename(path) == [stem |-> path.stem, suffix |-> path.suffix]

RECURSIVE SeqsUpTo(_, _)
SeqsUpTo(S, n) ==
    IF n = 0 THEN {<<>>}
    ELSE LET shorter == SeqsUpTo(S, n - 1)
         IN  shorter \cup {Append(s, x) : s \in {t \in shorter : Len(t) = n - 1}, x \in S}

\* the credential typed in the UI: None, or a string of characters
PyNone == [kind |-> "none"]
Text(chars) == [kind |-> "str", chars |-> chars]
UiKeys == {PyNone, Text(<<" ">>), Text(<<" ", "k", " ">>)}
EnvKeys == {<<>>, <<"e", " ">>}
LANGUAGE_OPTIONS == {"en"}

\* what one POST can come back with
Raise == [kind |-> "raise"]
Http(status, body) == [kind |-> "http", status |-> status, body |-> body]
InlinePart(ent) ==
    Map(<< <<"candidates", List(<< Map(<< <<"text", Num>> >>),
                                     Map(<< <<"inline_data", Map(ent)>> >>) >>)>> >>)
ReplyPngA == InlinePart(<< <<"data", ShortA>> >>)
ReplyJpegB == InlinePart(<< <<"mime_type", MimeJpeg>>, <<"data", LongB>> >>)
ReplyWebpA == InlinePart(<< <<"mime_type", MimeUpperWebp>>, <<"data", ShortA>> >>)
ReplyBareB == Map(<< <<"image", Map(<< <<"data", LongB>> >>)>> >>)
ReplyNullMime == InlinePart(<< <<"mime_type", Null>>, <<"data", ShortA>> >>)
ReplyBadB64 == Map(<< <<"image", Map(<< <<"data", LongBadA>> >>)>> >>)
ReplyNoImage == Map(<< <<"text", Num>>, <<"data", Exactly100>> >>)
Replies ==
    { Raise, Http(500, Null),
      Http(HttpOk, ReplyPngA), Http(HttpOk, ReplyJpegB), Http(HttpOk, ReplyWebpA),
      Http(HttpOk, ReplyBareB), Http(HttpOk, ReplyNullMime), Http(HttpOk, ReplyBadB64),
      Http(HttpOk, ReplyNoImage) }
ConcReplies == {Http(500, Null), Http(HttpOk, ReplyPngA), Http(HttpOk, ReplyBareB)}

\* writing the output file: done, open() raises, or write() raises after open()
WriteOutcomes == {"ok", "open_raises", "write_raises"}
ConcWriteOutcomes == {"ok"}

\* ------------------------------------------------------------------------
\* State
\* ------------------------------------------------------------------------
VARIABLES
    now,            \* datetime.now(), in seconds
    env_key,        \* os.getenv("GEMINI_API_KEY", "")
    dirs,           \* directories under OUTPUT_DIR
    fs,             \* output files: path -> bytes
    zips,           \* archives: directory -> entries of translated_images.zip
    sessions,       \* table sessions, in id order
    file_logs,      \* table file_logs, in id order
    requests,       \* POSTs sent to GEMINI_URL, in order
    pc,             \* where each invocation of process_images stands
    files,          \* argument files
    api_key_ui,     \* argument api_key_ui
    target_language,
    api_key,
    out_dir,
    session_id,
    idx,
    success_count,
    error_count,
    gallery_items,
    logs,
    bytes_out,
    out_mime,
    e,              \* the exception caught at line 285
    zip_path_str,
    ret,            \* what process_images returned
    writes,         \* history: every open(out_file, "wb") of the invocation
    outcome,        \* history: per item, the step that raised ("none": no step)
    payload,        \* SpecExtract: the tree given to the extractor
    found           \* SpecExtract: what the extractor returned

shared == <<now, env_key, dirs, fs, zips, sessions, file_logs, requests>>
args == <<files, api_key_ui, target_language>>
locals == <<api_key, out_dir, session_id, idx, success_count, error_count,
            gallery_items, logs, bytes_out, out_mime, e, zip_path_str, ret, writes,
            outcome>>
extractor == <<payload, found>>
vars == <<shared, pc, args, locals, extractor>>

\* values of variables that hold nothing yet
Unset == [kind |-> "unset"]
\* SQL NULL in sessions.zip_path
SqlNull == [kind |-> "null"]
EmptyStr == [kind |-> "empty"]
ZipPath(dir) == [kind |-> "zip", dir |-> dir]

\* ------------------------------------------------------------------------
\* Credential resolution (src/app.py 254)
\* ------------------------------------------------------------------------
RECURSIVE LStrip(_)
LStrip(s) == IF s # <<>> /\ Head(s) = " " THEN LStrip(Tail(s)) ELSE s
RECURSIVE RStrip(_)
RStrip(s) == IF s # <<>> /\ s[Len(s)] = " " THEN RStrip(SubSeq(s, 1, Len(s) - 1)) ELSE s
Strip(s) == RStrip(LStrip(s))

\* a resolution that forgets to strip the typed value
ResolveKeyNoStrip(ui, env) ==
    LET typed == IF ui.kind = "none" THEN <<>> ELSE ui.chars
    IN  IF typed # <<>> THEN typed ELSE Strip(env)

\* (api_key_ui or "").strip() or os.getenv("GEMINI_API_KEY", "").strip()
ResolveKey(ui, env) ==
    LET typed == Strip(IF ui.kind = "none" THEN <<>> ELSE ui.chars)
    IN  IF typed # <<>> THEN typed ELSE Strip(env)

\* ------------------------------------------------------------------------
\* Ledger (src/app.py 174-208)
\* ------------------------------------------------------------------------
\* a sessions table whose zip_path defaults to the empty string
SessionRowEmptyZip(id, ts, language, file_count) ==
    [id |-> id, ts |-> ts, language |-> language, file_count |-> file_count,
     success_count |-> 0, error_count |-> 0, zip_path |-> [kind |-> "empty"]]

\* log_session_start: INSERT INTO sessions (ts, language, file_count)
SessionRow(id, ts, language, file_count) ==
    [id |-> id, ts |-> ts, language |-> language, file_count |-> file_count,
     success_count |-> 0, error_count |-> 0, zip_path |-> SqlNull]

\* log_session_finalize: UPDATE sessions SET ... WHERE id=?
Finalized(row, sc, ec, zp) ==
    [row EXCEPT !.success_count = sc, !.error_count = ec, !.zip_path = zp]

\* log_file_result: INSERT INTO file_logs (...)
FileLogRow(id, sid, ts, filename, status, mime, message) ==
    [id |-> id, session_id |-> sid, ts |-> ts, filename |-> filename,
     status |-> status, out_mime |-> mime, message |-> message]

\* ------------------------------------------------------------------------
\* Output paths (src/app.py 123-127, 278, 293)
\* ------------------------------------------------------------------------
\* ensure_output_dir: OUTPUT_DIR / f"gemini_edits_{ts}", ts to the second
ensure_output_dir(clock) == [ts |-> clock]

\* an output name that keeps the suffix of the upload
OutNameKeepSuffix(filename, ext) ==
    [stem |-> filename.stem, tag |-> "_translated", ext |-> filename.suffix]

\* out_dir / f"{Path(filename).stem}_translated{ext}"
OutName(filename, ext) == [stem |-> filename.stem, tag |-> "_translated", ext |-> ext]
OutFile(dir, filename, ext) == [dir |-> dir, name |-> OutName(filename, ext)]

\* ------------------------------------------------------------------------
\* Initial states
\* ------------------------------------------------------------------------
InitShared ==
    /\ now = 0
    /\ dirs = {}
    /\ fs = <<>>
    /\ zips = <<>>
    /\ sessions = <<>>
    /\ file_logs = <<>>
    /\ requests = <<>>

InitLocals ==
    /\ files = [b \in Batches |-> <<>>]
    /\ api_key_ui = [b \in Batches |-> PyNone]
    /\ target_language = [b \in Batches |-> "en"]
    /\ api_key = [b \in Batches |-> <<>>]
    /\ out_dir = [b \in Batches |-> Unset]
    /\ session_id = [b \in Batches |-> 0]
    /\ idx = [b \in Batches |-> 0]
    /\ success_count = [b \in Batches |-> 0]
    /\ error_count = [b \in Batches |-> 0]
    /\ gallery_items = [b \in Batches |-> <<>>]
    /\ logs = [b \in Batches |-> <<>>]
    /\ bytes_out = [b \in Batches |-> Unset]
    /\ out_mime = [b \in Batches |-> Unset]
    /\ e = [b \in Batches |-> Unset]
    /\ zip_path_str = [b \in Batches |-> Unset]
    /\ ret = [b \in Batches |-> Unset]
    /\ writes = [b \in Batches |-> <<>>]
    /\ outcome = [b \in Batches |-> <<>>]

\* one invocation; invocation 2 never starts
Init ==
    /\ InitShared
    /\ InitLocals
    /\ env_key \in EnvKeys
    /\ pc = [b \in Batches |-> IF b = 1 THEN "idle" ELSE "off"]
    /\ payload = Unset
    /\ found = Unset

\* two invocations side by side
InitConc ==
    /\ InitShared
    /\ InitLocals
    /\ env_key = <<"e", " ">>
    /\ pc = [b \in Batches |-> "idle"]
    /\ payload = Unset
    /\ found = Unset

\* the extractor alone
InitExtract ==
    /\ InitShared
    /\ InitLocals
    /\ env_key = <<>>
    /\ pc = [b \in Batches |-> "off"]
    /\ payload \in Trees
    /\ found = Unset

\* ------------------------------------------------------------------------
\* call_gemini_edit (src/app.py 90-121) on one reply of the service
\* ------------------------------------------------------------------------
Raised(what) == [kind |-> "raised", what |-> what]
Returned(bytes, mime) == [kind |-> "returned", bytes |-> bytes, mime |-> mime]

call_gemini_edit(reply) ==
    IF reply.kind = "raise"
    THEN Raised("RequestException")
    ELSE IF reply.status # HttpOk
         THEN Raised("Gemini API error")
         ELSE LET hit == extract_image_from_response(reply.body)
              IN  IF hit = None
                  THEN Raised("No image data found in response")
                  ELSE IF ~B64Valid(hit.data)
                       THEN Raised("Failed to decode base64 image")
                       ELSE Returned(B64Decode(hit.data), hit.mime)

\* ------------------------------------------------------------------------
\* process_images (src/app.py 242-304), one action per step that touches
\* the file system, the service or the ledger
\* ------------------------------------------------------------------------
Msg(text) == [tag |-> "msg", text |-> text]
Ret(gallery, zip, text) == [kind |-> "ret", gallery |-> gallery, zip |-> zip, text |-> text]

\* lines 290 and 264: the loop moves on, or ends
Advance(b) ==
    /\ idx' = [idx EXCEPT ![b] = idx[b] + 1]
    /\ pc' = [pc EXCEPT ![b] = IF idx[b] < Len(files[b]) THEN "encode" ELSE "zip"]
    /\ bytes_out' = [bytes_out EXCEPT ![b] = Unset]
    /\ out_mime' = [out_mime EXCEPT ![b] = Unset]
    /\ e' = [e EXCEPT ![b] = Unset]

\* lines 285-286 entered: the exception is bound to e
Catch(b, what, step) ==
    /\ e' = [e EXCEPT ![b] = [kind |-> "exception", what |-> what]]
    /\ pc' = [pc EXCEPT ![b] = "except"]
    /\ outcome' = [outcome EXCEPT ![b] = Append(@,
                      [failed |-> step, bytes |-> bytes_out[b], mime |-> out_mime[b]])]

\* lines 243-257: validation, credential, output directory
Invoke(b, fl, lang, ui) ==
    /\ pc[b] = "idle"
    /\ files' = [files EXCEPT ![b] = fl]
    /\ target_language' = [target_language EXCEPT ![b] = lang]
    /\ api_key_ui' = [api_key_ui EXCEPT ![b] = ui]
    /\ IF fl = <<>>
       THEN /\ ret' = [ret EXCEPT ![b] = Ret(<<>>, EmptyStr, <<Msg("no files")>>)]
            /\ pc' = [pc EXCEPT ![b] = "returned"]
            /\ UNCHANGED <<api_key, out_dir, dirs>>
       ELSE IF ResolveKey(ui, env_key) = <<>>
            THEN /\ ret' = [ret EXCEPT ![b] = Ret(<<>>, EmptyStr, <<Msg("no key")>>)]
                 /\ pc' = [pc EXCEPT ![b] = "returned"]
                 /\ UNCHANGED <<api_key, out_dir, dirs>>
            ELSE /\ api_key' = [api_key EXCEPT ![b] = ResolveKey(ui, env_key)]
                 /\ out_dir' = [out_dir EXCEPT ![b] = ensure_output_dir(now)]
                 /\ dirs' = dirs \cup {ensure_output_dir(now)}
                 /\ pc' = [pc EXCEPT ![b] = "session"]
                 /\ UNCHANGED ret
    /\ UNCHANGED <<now, env_key, fs, zips, sessions, file_logs, requests>>
    /\ UNCHANGED <<session_id, idx, success_count, error_count, gallery_items, logs,
                   bytes_out, out_mime, e, zip_path_str, writes, outcome>>
    /\ UNCHANGED extractor

\* lines 258-263: log_session_start, counters
SessionStart(b) ==
    /\ pc[b] = "session"
    /\ sessions' = Append(sessions, SessionRow(Len(sessions) + 1, now,
                                               target_language[b], Len(files[b])))
    /\ session_id' = [session_id EXCEPT ![b] = Len(sessions) + 1]
    /\ success_count' = [success_count EXCEPT ![b] = 0]
    /\ error_count' = [error_count EXCEPT ![b] = 0]
    /\ idx' = [idx EXCEPT ![b] = 1]
    /\ pc' = [pc EXCEPT ![b] = "encode"]
    /\ UNCHANGED <<now, env_key, dirs, fs, zips, file_logs, requests>>
    /\ UNCHANGED <<args, extractor>>
    /\ UNCHANGED <<api_key, out_dir, gallery_items, logs, bytes_out, out_mime, e,
                   zip_path_str, ret, writes, outcome>>

\* lines 264-275: image_file_to_b64; open() raises on an unreadable file
Encode(b, readable) ==
    /\ pc[b] = "encode"
    /\ IF readable
       THEN /\ pc' = [pc EXCEPT ![b] = "call"]
            /\ UNCHANGED <<e, outcome>>
       ELSE Catch(b, "IOError", "encode")
    /\ UNCHANGED <<shared, args, extractor>>
    /\ UNCHANGED <<api_key, out_dir, session_id, idx, success_count, error_count,
                   gallery_items, logs, bytes_out, out_mime, zip_path_str, ret, writes>>

\* a call that is tried once more after a first failed attempt
CallRetry(b, reply) ==
    /\ pc[b] = "call"
    /\ requests' = Append(requests,
                          [batch |-> b, idx |-> idx[b],
                           mime_type |-> guess_mime_type(files[b][idx[b]]),
                           key |-> api_key[b]])
    /\ IF call_gemini_edit(reply).kind = "returned"
       THEN /\ bytes_out' = [bytes_out EXCEPT ![b] = call_gemini_edit(reply).bytes]
            /\ out_mime' = [out_mime EXCEPT ![b] = call_gemini_edit(reply).mime]
            /\ pc' = [pc EXCEPT ![b] = "write"]
            /\ UNCHANGED <<e, outcome>>
       ELSE IF \A k \in 1..Len(requests) : requests[k].idx # idx[b]
            THEN UNCHANGED <<pc, e, outcome, bytes_out, out_mime>>
            ELSE /\ Catch(b, call_gemini_edit(reply).what, "call")
                 /\ UNCHANGED <<bytes_out, out_mime>>
    /\ UNCHANGED <<now, env_key, dirs, fs, zips, sessions, file_logs>>
    /\ UNCHANGED <<args, extractor>>
    /\ UNCHANGED <<api_key, out_dir, session_id, idx, success_count, error_count,
                   gallery_items, logs, zip_path_str, ret, writes>>

\* line 276: one POST, then call_gemini_edit's handling of the reply
Call(b, reply) ==
    /\ pc[b] = "call"
    /\ requests' = Append(requests,
                          [batch |-> b, idx |-> idx[b],
                           mime_type |-> guess_mime_type(files[b][idx[b]]),
                           key |-> api_key[b]])
    /\ IF call_gemini_edit(reply).kind = "returned"
       THEN /\ bytes_out' = [bytes_out EXCEPT ![b] = call_gemini_edit(reply).bytes]
            /\ out_mime' = [out_mime EXCEPT ![b] = call_gemini_edit(reply).mime]
            /\ pc' = [pc EXCEPT ![b] = "write"]
            /\ UNCHANGED <<e, outcome>>
       ELSE /\ Catch(b, call_gemini_edit(reply).what, "call")
            /\ UNCHANGED <<bytes_out, out_mime>>
    /\ UNCHANGED <<now, env_key, dirs, fs, zips, sessions, file_logs>>
    /\ UNCHANGED <<args, extractor>>
    /\ UNCHANGED <<api_key, out_dir, session_id, idx, success_count, error_count,
                   gallery_items, logs, zip_path_str, ret, writes>>

\* lines 277-282: extension, output file, gallery entry, log line
Write(b, how) ==
    /\ pc[b] = "write"
    /\ LET filename == Filename(files[b][idx[b]])
           out_file == OutFile(out_dir[b], filename, ext_from_mime(out_mime[b]))
       IN  IF ExtRaises(out_mime[b])
           THEN /\ Catch(b, "AttributeError", "ext")
                /\ UNCHANGED <<fs, writes, gallery_items, logs>>
           ELSE IF how = "open_raises"
           THEN /\ Catch(b, "OSError", "write")
                /\ UNCHANGED <<fs, writes, gallery_items, logs>>
           ELSE IF how = "write_raises"
           THEN /\ fs' = (out_file :> EmptyBytes) @@ fs
                /\ writes' = [writes EXCEPT ![b] = Append(@,
                                 [idx |-> idx[b], file |-> out_file, bytes |-> EmptyBytes])]
                /\ Catch(b, "OSError", "write")
                /\ UNCHANGED <<gallery_items, logs>>
           ELSE /\ fs' = (out_file :> bytes_out[b]) @@ fs
                /\ writes' = [writes EXCEPT ![b] = Append(@,
                                 [idx |-> idx[b], file |-> out_file, bytes |-> bytes_out[b]])]
                /\ gallery_items' = [gallery_items EXCEPT ![b] = Append(@,
                                 [file |-> out_file, label |-> filename])]
                /\ logs' = [logs EXCEPT ![b] = Append(@,
                                 [tag |-> "OK", filename |-> filename,
                                  out |-> out_file.name, mime |-> out_mime[b]])]
                /\ pc' = [pc EXCEPT ![b] = "log_ok"]
                /\ UNCHANGED <<e, outcome>>
    /\ UNCHANGED <<now, env_key, dirs, zips, sessions, file_logs, requests>>
    /\ UNCHANGED <<args, extractor>>
    /\ UNCHANGED <<api_key, out_dir, session_id, idx, success_count, error_count,
                   bytes_out, out_mime, zip_path_str, ret>>

\* lines 283-284: log_file_result(.., "OK", ..) and the success counter;
\* the INSERT raises when the store refuses it
LogOk(b, stored) ==
    /\ pc[b] = "log_ok"
    /\ IF stored
       THEN /\ file_logs' = Append(file_logs,
                   FileLogRow(Len(file_logs) + 1, session_id[b], now,
                              Filename(files[b][idx[b]]), "OK", out_mime[b].val, "ok"))
            /\ success_count' = [success_count EXCEPT ![b] = success_count[b] + 1]
            /\ outcome' = [outcome EXCEPT ![b] = Append(@,
                   [failed |-> "none", bytes |-> bytes_out[b], mime |-> out_mime[b]])]
            /\ Advance(b)
       ELSE /\ Catch(b, "sqlite3.Error", "log_ok")
            /\ UNCHANGED <<file_logs, success_count, idx, bytes_out, out_mime>>
    /\ UNCHANGED <<now, env_key, dirs, fs, zips, sessions, requests>>
    /\ UNCHANGED <<args, extractor>>
    /\ UNCHANGED <<api_key, out_dir, session_id, error_count, gallery_items, logs,
                   zip_path_str, ret, writes>>

\* an except branch that forgets the error counter
ExceptNoCount(b, stored) ==
    /\ pc[b] = "except"
    /\ logs' = [logs EXCEPT ![b] = Append(@,
                   [tag |-> "ERR", filename |-> Filename(files[b][idx[b]]), what |-> e[b].what])]
    /\ IF stored
       THEN /\ file_logs' = Append(file_logs,
                   FileLogRow(Len(file_logs) + 1, session_id[b], now,
                              Filename(files[b][idx[b]]), "ERR", "", e[b].what))
            /\ UNCHANGED error_count
            /\ Advance(b)
       ELSE /\ pc' = [pc EXCEPT ![b] = "raised"]
            /\ UNCHANGED <<file_logs, error_count, idx, bytes_out, out_mime, e>>
    /\ UNCHANGED <<now, env_key, dirs, fs, zips, sessions, requests>>
    /\ UNCHANGED <<args, extractor>>
    /\ UNCHANGED <<api_key, out_dir, session_id, success_count, gallery_items,
                   zip_path_str, ret, writes, outcome>>

\* lines 285-289: the except branch; its own log_file_result is not guarded,
\* so an INSERT that raises leaves process_images
Except(b, stored) ==
    /\ pc[b] = "except"
    /\ logs' = [logs EXCEPT ![b] = Append(@,
                   [tag |-> "ERR", filename |-> Filename(files[b][idx[b]]), what |-> e[b].what])]
    /\ IF stored
       THEN /\ file_logs' = Append(file_logs,
                   FileLogRow(Len(file_logs) + 1, session_id[b], now,
                              Filename(files[b][idx[b]]), "ERR", "", e[b].what))
            /\ error_count' = [error_count EXCEPT ![b] = error_count[b] + 1]
            /\ Advance(b)
       ELSE /\ pc' = [pc EXCEPT ![b] = "raised"]
            /\ UNCHANGED <<file_logs, error_count, idx, bytes_out, out_mime, e>>
    /\ UNCHANGED <<now, env_key, dirs, fs, zips, sessions, requests>>
    /\ UNCHANGED <<args, extractor>>
    /\ UNCHANGED <<api_key, out_dir, session_id, success_count, gallery_items,
                   zip_path_str, ret, writes, outcome>>

\* zf.write(p, arcname=Path(p).name) for every gallery entry
ZipEntries(gallery, disk) ==
    [i \in 1..Len(gallery) |-> [name |-> gallery[i].file.name, bytes |-> disk[gallery[i].file]]]

\* lines 291-301: the archive
Zip(b) ==
    /\ pc[b] = "zip"
    /\ IF Len(gallery_items[b]) > 0
       THEN /\ zips' = (out_dir[b] :> ZipEntries(gallery_items[b], fs)) @@ zips
            /\ logs' = [logs EXCEPT ![b] = Append(@, [tag |-> "zip", dir |-> out_dir[b]])]
            /\ zip_path_str' = [zip_path_str EXCEPT ![b] = ZipPath(out_dir[b])]
       ELSE /\ zip_path_str' = [zip_path_str EXCEPT ![b] = EmptyStr]
            /\ UNCHANGED <<zips, logs>>
    /\ pc' = [pc EXCEPT ![b] = "finalize"]
    /\ UNCHANGED <<now, env_key, dirs, fs, sessions, file_logs, requests>>
    /\ UNCHANGED <<args, extractor>>
    /\ UNCHANGED <<api_key, out_dir, session_id, idx, success_count, error_count,
                   gallery_items, bytes_out, out_mime, e, ret, writes, outcome>>

\* lines 302-304: log_session_finalize and the return
Finalize(b) ==
    /\ pc[b] = "finalize"
    /\ sessions' = [sessions EXCEPT ![session_id[b]] =
                       Finalized(@, success_count[b], error_count[b], zip_path_str[b])]
    /\ ret' = [ret EXCEPT ![b] = Ret(gallery_items[b], zip_path_str[b], logs[b])]
    /\ pc' = [pc EXCEPT ![b] = "returned"]
    /\ UNCHANGED <<now, env_key, dirs, fs, zips, file_logs, requests>>
    /\ UNCHANGED <<args, extractor>>
    /\ UNCHANGED <<api_key, out_dir, session_id, idx, success_count, error_count,
                   gallery_items, logs, bytes_out, out_mime, e, zip_path_str, writes,
                   outcome>>

\* the wall clock moves to the next second
Tick ==
    /\ now < MaxClock
    /\ now' = now + 1
    /\ UNCHANGED <<env_key, dirs, fs, zips, sessions, file_logs, requests>>
    /\ UNCHANGED <<pc, args, locals, extractor>>

\* extract_image_from_response applied to the tree
Extract ==
    /\ found = Unset
    /\ payload # Unset
    /\ found' = extract_image_from_response(payload)
    /\ UNCHANGED <<shared, pc, args, locals, payload>>

\* ------------------------------------------------------------------------
\* Specifications
\* ------------------------------------------------------------------------
Next ==
    \E b \in Batches :
        \/ \E fl \in SeqsUpTo(Uploads, MaxFiles), lang \in LANGUAGE_OPTIONS, ui \in UiKeys :
               Invoke(b, fl, lang, ui)
        \/ SessionStart(b)
        \/ \E readable \in BOOLEAN : Encode(b, readable)
        \/ \E reply \in Replies : Call(b, reply)
        \/ \E how \in WriteOutcomes : Write(b, how)
        \/ \E stored \in BOOLEAN : LogOk(b, stored)
        \/ \E stored \in BOOLEAN : Except(b, stored)
        \/ Zip(b)
        \/ Finalize(b)

Spec == Init /\ [][Next]_vars

ConcUiKeys == {PyNone}

NextConc ==
    \/ Tick
    \/ \E b \in Batches :
        \/ \E fl \in SeqsUpTo(ConcUploads, MaxConcFiles), lang \in LANGUAGE_OPTIONS,
              ui \in ConcUiKeys :
               Invoke(b, fl, lang, ui)
        \/ SessionStart(b)
        \/ Encode(b, TRUE)
        \/ \E reply \in ConcReplies : Call(b, reply)
        \/ \E how \in ConcWriteOutcomes : Write(b, how)
        \/ LogOk(b, TRUE)
        \/ Except(b, TRUE)
        \/ Zip(b)
        \/ Finalize(b)

SpecConc == InitConc /\ [][NextConc]_vars

NextExtract == Extract

SpecExtract == InitExtract /\ [][NextExtract]_vars

\* ------------------------------------------------------------------------
\* Vocabulary of the properties
\* ------------------------------------------------------------------------
\* the invocation went past both short-circuits and registered its session
HasSession(b) == session_id[b] # 0
InLoop(b) == pc[b] \in {"encode", "call", "write", "log_ok", "except"}
AfterLoop(b) == pc[b] \in {"zip", "finalize", "returned"} /\ HasSession(b)
FinalizedRun(b) == pc[b] = "returned" /\ HasSession(b)
\* number of items whose loop body has run to its end
Completed(b) ==
    IF InLoop(b) \/ pc[b] = "raised" THEN idx[b] - 1
    ELSE IF AfterLoop(b) THEN Len(files[b])
    ELSE 0
RowsOf(sid) == SelectSeq(file_logs, LAMBDA r : r.session_id = sid)
RequestsOf(b) == SelectSeq(requests, LAMBDA r : r.batch = b)
WritesBy(b, i) == SelectSeq(writes[b], LAMBDA w : w.idx = i)

\* ------------------------------------------------------------------------
\* C1
\* ------------------------------------------------------------------------
\* C1: the Session row written by the finalize step records the length of
\* the input list as file_count, and its success_count and error_count add
\* up to it, whatever the per-item outcomes were.
C1_CountsAddUp ==
    \A b \in Batches :
        FinalizedRun(b) =>
            LET row == sessions[session_id[b]]
            IN  /\ row.zip_path # SqlNull
                /\ row.file_count = Len(files[b])
                /\ row.success_count + row.error_count = row.file_count

\* a finalized batch of MaxFiles items with successes and failures mixed
C1_Witness ==
    \E b \in Batches :
        /\ FinalizedRun(b)
        /\ sessions[session_id[b]].success_count >= 1
        /\ sessions[session_id[b]].error_count >= 1

\* ------------------------------------------------------------------------
\* C2
\* ------------------------------------------------------------------------
\* C2: past the two short-circuits, no failure of a step of an item makes
\* process_images stop before the finalize step: it never leaves by an
\* exception.
C2_NeverAborts == \A b \in Batches : pc[b] # "raised"

\* ------------------------------------------------------------------------
\* C5
\* ------------------------------------------------------------------------
Blank(s) == \A i \in 1..Len(s) : s[i] = " "
Typed(ui) == IF ui.kind = "none" THEN <<>> ELSE ui.chars
\* s without its leading and trailing spaces
Trimmed(s) ==
    IF Blank(s) THEN <<>>
    ELSE LET inked == {i \in 1..Len(s) : s[i] # " "}
             lo == CHOOSE i \in inked : \A j \in inked : i <= j
             hi == CHOOSE i \in inked : \A j \in inked : j <= i
         IN  SubSeq(s, lo, hi)

\* C5: with an empty file list, or with a credential that is empty once the
\* typed value (trimmed, first) and the environment value (trimmed) are
\* resolved, process_images returns an empty gallery, an empty archive path
\* and a message, and nothing else happened: no Session row, no FileLogEntry
\* row, no outbound call, no output directory. Otherwise the credential used
\* is the trimmed typed value, or the trimmed environment value when the
\* typed one is blank.
C5_ShortCircuit ==
    \A b \in Batches :
        pc[b] \notin {"idle", "off"} =>
            IF files[b] = <<>> \/ (Blank(Typed(api_key_ui[b])) /\ Blank(env_key))
            THEN /\ pc[b] = "returned"
                 /\ ret[b].gallery = <<>>
                 /\ ret[b].zip = EmptyStr
                 /\ ret[b].text \in {<<Msg("no files")>>, <<Msg("no key")>>}
                 /\ ~HasSession(b)
                 /\ sessions = <<>>
                 /\ file_logs = <<>>
                 /\ requests = <<>>
                 /\ dirs = {}
                 /\ fs = <<>>
            ELSE api_key[b] = IF Blank(Typed(api_key_ui[b]))
                              THEN Trimmed(env_key)
                              ELSE Trimmed(Typed(api_key_ui[b]))

\* files were uploaded, the typed credential is a blank string, the
\* environment has none: the call returned the missing-credential message
C5_Witness ==
    \E b \in Batches :
        /\ pc[b] = "returned"
        /\ files[b] # <<>>
        /\ api_key_ui[b] = Text(<<" ">>)
        /\ ret[b].text = <<Msg("no key")>>

\* ------------------------------------------------------------------------
\* C3, C4
\* ------------------------------------------------------------------------
\* item i of invocation b has exactly one ledger row, an OK row, and wrote
\* exactly one output file, <stem>_translated<ext>, holding its result
OkRowAndFile(b, i) ==
    LET rows == RowsOf(session_id[b])
        o == outcome[b][i]
        fname == Filename(files[b][i])
    IN  /\ IsStr(o.mime)
        /\ Len(rows) = Completed(b)
        /\ rows[i].status = "OK"
        /\ rows[i].filename = fname
        /\ rows[i].out_mime = o.mime.val
        /\ Len(WritesBy(b, i)) = 1
        /\ WritesBy(b, i)[1].bytes = o.bytes
        /\ WritesBy(b, i)[1].file =
               [dir |-> out_dir[b],
                name |-> [stem |-> fname.stem, tag |-> "_translated",
                          ext |-> ext_from_mime(o.mime)]]
        /\ fname.stem = files[b][i].stem

C4_Original ==
    \A b \in Batches :
        /\ \A i \in 1..Completed(b) :
              outcome[b][i].failed # "none" =>
                  /\ Len(RowsOf(session_id[b])) = Completed(b)
                  /\ RowsOf(session_id[b])[i].status = "ERR"
                  /\ WritesBy(b, i) = <<>>
        /\ AfterLoop(b) =>
              Len(gallery_items[b]) = Len(SelectSeq(outcome[b], LAMBDA o : o.failed = "none"))
        /\ (FinalizedRun(b) /\ out_dir[b] \in DOMAIN zips) =>
              Len(zips[out_dir[b]]) = Len(SelectSeq(outcome[b], LAMBDA o : o.failed = "none"))

\* ------------------------------------------------------------------------
\* C6
\* ------------------------------------------------------------------------
Succeeded(b) == SelectSeq(outcome[b], LAMBDA o : o.failed = "none")

\* C6 as stated, for batches in which no step after the translation call
\* failed: with at least one success the archive path is recorded and the
\* archive holds one entry per successful item, the names pairwise distinct,
\* each entry with that item's own bytes; with no success the archive path
\* is empty and the Session is finalized with 0 successes and N errors.
C6_Original ==
    \A b \in Batches :
        (/\ FinalizedRun(b)
         /\ \A i \in 1..Len(outcome[b]) : outcome[b][i].failed \in {"none", "encode", "call"})
        =>
            LET row == sessions[session_id[b]]
            IN  IF row.success_count >= 1
                THEN /\ ret[b].zip = ZipPath(out_dir[b])
                     /\ row.zip_path = ZipPath(out_dir[b])
                     /\ out_dir[b] \in DOMAIN zips
                     /\ Len(zips[out_dir[b]]) = row.success_count
                     /\ \A j, k \in 1..Len(zips[out_dir[b]]) :
                            j # k => zips[out_dir[b]][j].name # zips[out_dir[b]][k].name
                     /\ \A k \in 1..Len(zips[out_dir[b]]) :
                            zips[out_dir[b]][k].bytes = Succeeded(b)[k].bytes
                ELSE /\ ret[b].zip = EmptyStr
                     /\ row.zip_path = EmptyStr
                     /\ row.success_count = 0
                     /\ row.error_count = Len(files[b])

\* ------------------------------------------------------------------------
\* C8
\* ------------------------------------------------------------------------
C8_LedgerState ==
    \A b \in Batches :
        /\ pc[b] \in {"off", "idle", "session"} => ~HasSession(b)
        /\ (InLoop(b) \/ pc[b] \in {"zip", "finalize", "raised"}) => HasSession(b)
        /\ HasSession(b) =>
              /\ session_id[b] \in 1..Len(sessions)
              /\ sessions[session_id[b]].file_count = Len(files[b])
              /\ \A c \in Batches \ {b} : session_id[c] # session_id[b]
              /\ Len(RowsOf(session_id[b])) = Completed(b)
              /\ \A k \in 1..Completed(b) :
                    RowsOf(session_id[b])[k].filename = Filename(files[b][k])
              /\ IF pc[b] = "returned"
                 THEN /\ sessions[session_id[b]].zip_path # SqlNull
                      /\ Completed(b) = Len(files[b])
                 ELSE /\ sessions[session_id[b]].success_count = 0
                      /\ sessions[session_id[b]].error_count = 0
                      /\ sessions[session_id[b]].zip_path = SqlNull

C8_LedgerStep ==
    /\ Len(sessions') >= Len(sessions)
    /\ Len(file_logs') >= Len(file_logs)
    /\ \A i \in 1..Len(file_logs) : file_logs'[i] = file_logs[i]
    /\ \A i \in 1..Len(sessions) :
          sessions'[i] # sessions[i] =>
              /\ \E b \in Batches :
                    session_id[b] = i /\ pc[b] = "finalize" /\ pc'[b] = "returned"
              /\ sessions[i].zip_path = SqlNull
              /\ sessions'[i].zip_path # SqlNull
              /\ Len(RowsOf(i)) = sessions[i].file_count
              /\ file_logs' = file_logs
    /\ Len(sessions') > Len(sessions) =>
          /\ Len(sessions') = Len(sessions) + 1
          /\ sessions'[Len(sessions')].success_count = 0
          /\ sessions'[Len(sessions')].error_count = 0
          /\ sessions'[Len(sessions')].zip_path = SqlNull
          /\ RowsOf(Len(sessions')) = <<>>
    /\ Len(file_logs') > Len(file_logs) =>
          /\ Len(file_logs') = Len(file_logs) + 1
          /\ sessions' = sessions
          /\ sessions[file_logs'[Len(file_logs')].session_id].zip_path = SqlNull

\* C8: the Session row is created once, before any item, with zero counts
\* and no archive path, and keeps these values until finalize; the k-th
\* FileLogEntry of the session is the k-th input item's; the row is changed
\* once, by finalize, after all of the session's FileLogEntry rows; no row
\* of either table is deleted or rewritten otherwise.
C8_LedgerOrder == [](C8_LedgerState) /\ [][C8_LedgerStep]_vars

\* a finalized batch of two different uploads, rows in input order
C8_Witness ==
    \E b \in Batches :
        /\ FinalizedRun(b)
        /\ files[b] = <<UploadB, UploadA>>
        /\ Len(RowsOf(session_id[b])) = 2
        /\ RowsOf(session_id[b])[1].status = "ERR"
        /\ RowsOf(session_id[b])[2].status = "OK"

\* ------------------------------------------------------------------------
\* C10
\* ------------------------------------------------------------------------
\* C10: each item whose file was encoded gets exactly one outbound call and
\* an item whose encoding failed gets none; the calls go out in input order
\* and none is repeated, so an item whose call failed ends with an ERR row,
\* and there are never more calls than files.
C10_OneCallPerEncodedItem ==
    \A b \in Batches :
        LET reqs == RequestsOf(b)
        IN  /\ \A k \in 1..Len(reqs) : reqs[k].idx \in 1..Len(files[b])
            /\ \A k \in 1..(Len(reqs) - 1) : reqs[k].idx < reqs[k + 1].idx
            /\ Len(reqs) <= Len(files[b])
            /\ \A i \in 1..Completed(b) :
                  /\ Len(SelectSeq(reqs, LAMBDA r : r.idx = i)) =
                         IF outcome[b][i].failed = "encode" THEN 0 ELSE 1
                  /\ outcome[b][i].failed = "call" =>
                         RowsOf(session_id[b])[i].status = "ERR"

\* a finalized batch: one item was unreadable, the other's call failed
C10_Witness ==
    \E b \in Batches :
        /\ FinalizedRun(b)
        /\ Len(files[b]) = 2
        /\ outcome[b][1].failed = "encode"
        /\ outcome[b][2].failed = "call"
        /\ Len(RequestsOf(b)) = 1

\* ------------------------------------------------------------------------
\* C7 (SpecConc)
\* ------------------------------------------------------------------------
\* the last write invocation b made to the file of its k-th write
LastWrite(b, k) ==
    \A j \in (k + 1)..Len(writes[b]) : writes[b][j].file # writes[b][k].file

\* C7 as stated: two invocations running side by side have different
\* Session ids, each one's FileLogEntry rows carry its own session id, and
\* neither one's output files or archive are overwritten by, or hold
\* outputs of, the other.
C7_Original ==
    \A b \in Batches :
        /\ HasSession(b) =>
              /\ \A c \in Batches \ {b} : session_id[c] # session_id[b]
              /\ Len(RowsOf(session_id[b])) = Completed(b)
        /\ \A k \in 1..Len(writes[b]) :
              LastWrite(b, k) => fs[writes[b][k].file] = writes[b][k].bytes
        /\ (FinalizedRun(b) /\ ret[b].zip # EmptyStr) =>
              /\ out_dir[b] \in DOMAIN zips
              /\ Len(zips[out_dir[b]]) = Len(gallery_items[b])
              /\ \A k \in 1..Len(zips[out_dir[b]]) :
                    \E j \in 1..Len(writes[b]) :
                        /\ LastWrite(b, j)
                        /\ writes[b][j].file.name = zips[out_dir[b]][k].name
                        /\ writes[b][j].bytes = zips[out_dir[b]][k].bytes

\* ------------------------------------------------------------------------
\* C9 (SpecExtract)
\* ------------------------------------------------------------------------
\* the values stored under key in a map
Field(m, key) == {m.ent[i][2] : i \in {j \in 1..Len(m.ent) : m.ent[j][1] = key}}
ChildrenOf(n) ==
    IF n.kind = "map" THEN [i \in 1..Len(n.ent) |-> n.ent[i][2]]
    ELSE IF n.kind = "list" THEN n.items
    ELSE <<>>

\* every node of the tree, a node before its children, children in order
RECURSIVE PreOrder(_)
RECURSIVE PreOrderAll(_)
PreOrder(n) == <<n>> \o PreOrderAll(ChildrenOf(n))
PreOrderAll(ns) == IF ns = <<>> THEN <<>> ELSE PreOrder(Head(ns)) \o PreOrderAll(Tail(ns))

InlineImages(n) ==
    {m \in Field(n, "inline_data") :
        m.kind = "map" /\ \E d \in Field(m, "data") : d.kind = "str"}
ShapeA(n) == n.kind = "map" /\ InlineImages(n) # {}
ShapeB(n) ==
    n.kind = "map" /\ \E d \in Field(n, "data") : d.kind = "str" /\ d.len > DataMinLen
MimeOrPng(m) ==
    IF Field(m, "mime_type") = {} THEN MimePng ELSE CHOOSE v \in Field(m, "mime_type") : TRUE
\* shape (a) first: the pair comes from the map that holds the data
ImageOf(n) ==
    IF ShapeA(n)
    THEN LET m == CHOOSE x \in InlineImages(n) : TRUE
         IN  Tuple(MimeOrPng(m), CHOOSE d \in Field(m, "data") : TRUE)
    ELSE Tuple(MimeOrPng(n), CHOOSE d \in Field(n, "data") : TRUE)
Hits(tree) ==
    {k \in 1..Len(PreOrder(tree)) : ShapeA(PreOrder(tree)[k]) \/ ShapeB(PreOrder(tree)[k])}
FirstHit(tree) == CHOOSE k \in Hits(tree) : \A j \in Hits(tree) : k <= j

\* C9: the extractor returns the (mime, data) of the first node in
\* depth-first pre-order that is a map of shape (a) (its "inline_data" is a
\* map with a string "data") or of shape (b) (its own "data" is a string
\* longer than 100), shape (a) first on one node, the mime being the
\* "mime_type" beside the data or "image/png" when absent; it returns None
\* exactly when no node has either shape.
C9_FirstMatchInPreOrder ==
    found # Unset =>
        IF Hits(payload) = {}
        THEN found = None
        ELSE found = ImageOf(PreOrder(payload)[FirstHit(payload)])

\* several image nodes, none at the root, the first one of both shapes
C9_Witness ==
    /\ found # Unset
    /\ found # None
    /\ Cardinality(Hits(payload)) >= 2
    /\ FirstHit(payload) > 1
    /\ ShapeA(PreOrder(payload)[FirstHit(payload)])
    /\ ShapeB(PreOrder(payload)[FirstHit(payload)])
====
